---- MODULE Spec2Model ----
(***************************************************************************)
(* The clock model of googs (models.go): Clock.ComputeClock evaluated on   *)
(* a server-reported Clock snapshot and a TimeControl at the wall-clock    *)
(* instant of the call.                                                    *)
(*                                                                         *)
(* Times are float64 seconds in the code and whole seconds here.  On whole *)
(* seconds the code's epsilon tests read: x < 1e-7 iff x <= 0 and          *)
(* x > 1e-7 iff x > 0.  The only non-finite floats the code can produce    *)
(* come from the byoyomi division overTime / tc.PeriodTime; that block is  *)
(* modelled on tagged floats (finite, infinite, NaN).                      *)
(***************************************************************************)
EXTENDS Integers, FiniteSets, Sequences, TLC

VARIABLES
    wall,      \* the wall-clock instant (time.Now), seconds
    clock,     \* the Clock snapshot last delivered by the server
    tc,        \* the game's TimeControl
    player,    \* the PlayerColor of the latest ComputeClock call
    result,    \* what the latest ComputeClock call returned
    fresh,     \* TRUE while no time has passed since the latest call
    arg,       \* the input handed to a formatter or converter
    ret,       \* what the first call on arg returned
    back,      \* what the inverse conversion returned for ret
    pc,        \* where LoadClient stands
    client,    \* the Client that LoadClient fills
    file,      \* the secret file
    refreshed, \* what MaybeRefresh returned to LoadClient
    loaded     \* what LoadClient returned

clockVars == <<wall, clock, tc, player, result, fresh>>
libVars == <<arg, ret, back>>
loadVars == <<pc, client, file, refreshed, loaded>>
vars == <<wall, clock, tc, player, result, fresh, arg, ret, back, pc, client, file, refreshed, loaded>>

----------------------------------------------------------------------------
(* Bounds of the model *)

MaxPeriods == 2      \* most byoyomi periods a snapshot carries
MaxTicks == 11       \* wall-clock ticks the model follows
TickSecs == 5        \* seconds per wall-clock tick
IntBits == 16        \* width kept for Go's int (64 in the build; only
                     \* int(+Inf) reaches the limits)

----------------------------------------------------------------------------
(* Constants of the program *)

PlayerUnknown == 0
PlayerBlack == 1
PlayerWhite == 2

ClockAbsolute == "absolute"
ClockByoyomi == "byoyomi"
ClockCanadian == "canadian"
ClockFischer == "fischer"
ClockSimple == "simple"

ClockSystem == {ClockAbsolute, ClockByoyomi, ClockCanadian, ClockFischer, ClockSimple}

SuddenDeathSecs == 10
CanadianMinMoves == 2

----------------------------------------------------------------------------
(* Helpers *)

cond(b, x, y) == IF b THEN x ELSE y

Max(a, b) == IF a >= b THEN a ELSE b

\* x < 1e-7 on whole seconds
LtEps(x) == x <= 0

\* x > 1e-7 on whole seconds
GtEps(x) == x > 0

MinInt == -(2 ^ (IntBits - 1))
MaxInt == (2 ^ (IntBits - 1)) - 1

\* two's-complement wrap-around of Go's int arithmetic
WrapInt(x) == ((x - MinInt) % (2 ^ IntBits)) + MinInt

\* int(f) of a float64 that no int represents is implementation-dependent:
\* the builds produce the smallest int (amd64) or saturate (arm64).
InfAsInt == {MinInt, MaxInt}

----------------------------------------------------------------------------
(* Tagged floats for the byoyomi overtime block *)

Fin(n) == [k |-> "fin", v |-> n]
Inf(s) == [k |-> "inf", v |-> s]
NaN == [k |-> "nan", v |-> 0]

FloorDiv(a, b) ==
    IF b > 0
    THEN a \div b
    ELSE (0 - a) \div (0 - b)

\* math.Ceil in place of math.Floor
CeilQuot(a, b) ==
    IF b # 0 THEN Fin(0 - FloorDiv(0 - a, b))
    ELSE IF a > 0 THEN Inf(1)
    ELSE IF a < 0 THEN Inf(-1)
    ELSE NaN

\* integer division in place of float64 division: a zero divisor raises
IntQuot(a, b) ==
    IF b # 0 THEN Fin(FloorDiv(a, b)) ELSE [k |-> "panic", v |-> 0]

\* math.Floor(a / b) on float64: division by zero gives an infinity or NaN,
\* it never raises.
FloorQuot(a, b) ==
    IF b # 0 THEN Fin(FloorDiv(a, b))
    ELSE IF a > 0 THEN Inf(1)
    ELSE IF a < 0 THEN Inf(-1)
    ELSE NaN

FMul(f, n) ==
    CASE f.k = "fin" -> Fin(f.v * n)
      [] f.k = "inf" -> IF n = 0 THEN NaN ELSE Inf(IF n > 0 THEN f.v ELSE 0 - f.v)
      [] OTHER -> f

\* n - f
FSubFrom(n, f) ==
    CASE f.k = "fin" -> Fin(n - f.v)
      [] f.k = "inf" -> Inf(0 - f.v)
      [] OTHER -> f

\* f > 1e-7: every comparison with NaN is false
FGtEps(f) ==
    CASE f.k = "fin" -> GtEps(f.v)
      [] f.k = "inf" -> f.v > 0
      [] OTHER -> FALSE

\* int(f)
FToInt(f, infInt) == IF f.k = "fin" THEN f.v ELSE infInt

\* the float64 stored in a ComputedClock field: its value when finite
FVal(f) == IF f.k = "fin" THEN f.v ELSE f

----------------------------------------------------------------------------
(* Data *)

PlayerTime(pt, ptl, per, tt, ml, bt, val) ==
    [PeriodTime |-> pt, PeriodTimeLeft |-> ptl, Periods |-> per,
     ThinkingTime |-> tt, MovesLeft |-> ml, BlockTime |-> bt, Value |-> val]

\* no input, no value returned yet, a value returned, an error returned
NoArg == [kind |-> "none"]
None == [kind |-> "none"]
Ok(v) == [kind |-> "ok", val |-> v]
Err == [kind |-> "err"]

Nil == [kind |-> "nil"]
Panic == [kind |-> "panic"]
NotCalled == [kind |-> "none"]

ComputedClock(sys, main, periods, periodTime, moves, blockTime, sd, out) ==
    [kind |-> "clock", System |-> sys, MainTime |-> main,
     PeriodsLeft |-> periods, PeriodTimeLeft |-> periodTime,
     MovesLeft |-> moves, BlockTimeLeft |-> blockTime,
     SuddenDeath |-> sd, TimedOut |-> out]

----------------------------------------------------------------------------
(* Clock.ComputeClock *)

\* time measured from the snapshot's Now when it carries one
SinceSnapshot(c, now) == now - cond(c.Now # 0, c.Now, c.LastMove)

\* time.Since(c.LastMove.Time).Seconds() evaluated at the instant now
Since(c, now) == now - c.LastMove

\* the clock runs whoever holds the turn and before the first move
ElapsedNeverPaused(c, isTurn, now) == Since(c, now)

\* Pause clock if not turn or game has not started yet
Elapsed(c, isTurn, now) == cond(isTurn /\ ~c.StartMode, Since(c, now), 0)

\* every player value is taken for a player
AnyPlayer(p) == TRUE

\* the players ComputeClock's switch recognizes
KnownPlayer(p) == p \in {PlayerBlack, PlayerWhite}

IsTurn(c, p) ==
    IF p = PlayerBlack
    THEN c.CurrentPlayerID = c.BlackPlayerID
    ELSE c.CurrentPlayerID = c.WhitePlayerID

TimeOf(c, p) == IF p = PlayerBlack THEN c.BlackTime ELSE c.WhiteTime

\* TimedOut tested as mainTime < 0
MainTimeClockStrictTimeout(sys, isTurn, pool, elapsed) ==
    LET mainTime == cond(isTurn, Max(0, pool - elapsed), pool)
    IN  ComputedClock(sys, mainTime, 0, 0, 0, 0,
                      mainTime < SuddenDeathSecs, mainTime < 0)

\* sudden death only while some main time is left
MainTimeClockLowOnly(sys, isTurn, pool, elapsed) ==
    LET mainTime == cond(isTurn, Max(0, pool - elapsed), pool)
    IN  ComputedClock(sys, mainTime, 0, 0, 0, 0,
                      GtEps(mainTime) /\ mainTime < SuddenDeathSecs, LtEps(mainTime))

\* ClockAbsolute, ClockFischer and ClockSimple: one pool of main time
MainTimeClock(sys, isTurn, pool, elapsed) ==
    LET mainTime == cond(isTurn, Max(0, pool - elapsed), pool)
    IN  ComputedClock(sys, mainTime, 0, 0, 0, 0,
                      mainTime < SuddenDeathSecs, LtEps(mainTime))

\* Main time is used up first; what is spent beyond it is overTime.
Deplete(t, elapsed) ==
    IF GtEps(t.ThinkingTime)
    THEN LET m == t.ThinkingTime - elapsed
         IN  IF LtEps(m)
             THEN [mainTime |-> 0, overTime |-> 0 - m]
             ELSE [mainTime |-> m, overTime |-> 0]
    ELSE [mainTime |-> 0, overTime |-> elapsed]

\* the period time reported for a player who is not on turn
OffTurnPeriodTime(t, cfg) == cfg.PeriodTime

\* the period count is left as computed
NoClamp(n) == n

\* periodsLeft = cond(periodsLeft > 0, periodsLeft, 0)
ClampPeriods(n) == cond(n > 0, n, 0)

ByoyomiClock(t, cfg, isTurn, elapsed, infInt) ==
    IF isTurn
    THEN LET d == Deplete(t, elapsed)
             periodsUsed == FloorQuot(d.overTime, cfg.PeriodTime)
             dec == WrapInt(t.Periods - FToInt(periodsUsed, infInt))
             left == FSubFrom(cfg.PeriodTime,
                              FSubFrom(d.overTime, FMul(periodsUsed, cfg.PeriodTime)))
             over == GtEps(d.overTime)
             periodsLeft == IF over THEN ClampPeriods(dec) ELSE t.Periods
             periodTimeLeft == IF over
                               THEN FVal(cond(FGtEps(left), left, Fin(0)))
                               ELSE t.PeriodTime
         IN  IF over /\ periodsUsed.k = "panic"
             THEN Panic
             ELSE ComputedClock(cfg.System, d.mainTime, periodsLeft, periodTimeLeft,
                                0, 0, periodsLeft <= 1,
                                LtEps(d.mainTime) /\ periodsLeft < 0)
    ELSE ComputedClock(cfg.System, t.ThinkingTime, t.Periods,
                       OffTurnPeriodTime(t, cfg), 0, 0, t.Periods <= 1,
                       LtEps(t.ThinkingTime) /\ t.Periods < 0)

\* the whole elapsed time, not only the overtime, is taken off the block
CanadianClockWholeElapsed(t, cfg, isTurn, elapsed) ==
    LET d == IF isTurn THEN Deplete(t, elapsed)
             ELSE [mainTime |-> t.ThinkingTime, overTime |-> 0]
        cut == t.BlockTime - elapsed
        blockTimeLeft == IF isTurn /\ GtEps(elapsed)
                         THEN cond(GtEps(cut), cut, 0)
                         ELSE t.BlockTime
    IN  ComputedClock(cfg.System, d.mainTime, 0, 0, t.MovesLeft, blockTimeLeft,
                      LtEps(d.mainTime)
                          /\ (blockTimeLeft < SuddenDeathSecs
                              \/ t.MovesLeft < CanadianMinMoves),
                      LtEps(d.mainTime) /\ LtEps(blockTimeLeft))

\* a used-up block starts again at its full length
CanadianClockRefilled(t, cfg, isTurn, elapsed) ==
    LET d == IF isTurn THEN Deplete(t, elapsed)
             ELSE [mainTime |-> t.ThinkingTime, overTime |-> 0]
        cut == t.BlockTime - d.overTime
        blockTimeLeft == IF isTurn /\ GtEps(d.overTime)
                         THEN cond(GtEps(cut), cut, t.BlockTime)
                         ELSE t.BlockTime
    IN  ComputedClock(cfg.System, d.mainTime, 0, 0, t.MovesLeft, blockTimeLeft,
                      LtEps(d.mainTime)
                          /\ (blockTimeLeft < SuddenDeathSecs
                              \/ t.MovesLeft < CanadianMinMoves),
                      LtEps(d.mainTime) /\ LtEps(blockTimeLeft))

CanadianClock(t, cfg, isTurn, elapsed) ==
    LET d == IF isTurn THEN Deplete(t, elapsed)
             ELSE [mainTime |-> t.ThinkingTime, overTime |-> 0]
        cut == t.BlockTime - d.overTime
        blockTimeLeft == IF isTurn /\ GtEps(d.overTime)
                         THEN cond(GtEps(cut), cut, 0)
                         ELSE t.BlockTime
    IN  ComputedClock(cfg.System, d.mainTime, 0, 0, t.MovesLeft, blockTimeLeft,
                      LtEps(d.mainTime)
                          /\ (blockTimeLeft < SuddenDeathSecs
                              \/ t.MovesLeft < CanadianMinMoves),
                      LtEps(d.mainTime) /\ LtEps(blockTimeLeft))

ComputeClock(c, cfg, p, now, infInt) ==
    IF ~KnownPlayer(p)
    THEN Nil
    ELSE LET t == TimeOf(c, p)
             isTurn == IsTurn(c, p)
             elapsed == Elapsed(c, isTurn, now)
         IN  CASE cfg.System \in {ClockAbsolute, ClockFischer} ->
                      MainTimeClock(cfg.System, isTurn, t.ThinkingTime, elapsed)
               [] cfg.System = ClockByoyomi ->
                      ByoyomiClock(t, cfg, isTurn, elapsed, infInt)
               [] cfg.System = ClockCanadian ->
                      CanadianClock(t, cfg, isTurn, elapsed)
               [] cfg.System = ClockSimple ->
                      MainTimeClock(cfg.System, isTurn, cfg.PerMove, elapsed)
               [] OTHER -> Nil

----------------------------------------------------------------------------
(* Inputs: the snapshots and configurations the server can report *)

PlayerColors == {PlayerUnknown, PlayerBlack, PlayerWhite}

ThinkingTimes == {0, 40}
PeriodLengths == {20, 30}
ConfigPeriodTimes == {0, 30}
BlockTimes == {5, 20}
MovesLefts == {1, 3}
PerMoves == {5, 40}
LastMoves == {10}
Nows == {0, 20}              \* 0: the snapshot carries no Now
Deadlines == {100}           \* the time bank of a rengo game, as a deadline
PlayerIDs == [black |-> 1, white |-> 2]
Systems == ClockSystem \cup {"none"}

ZeroTime == PlayerTime(0, 0, 0, 0, 0, 0, 0)

\* the rengo variant: a bare timestamp, every structured field zero
RengoTime(deadline) == PlayerTime(0, 0, 0, 0, 0, 0, deadline)

IsRengoTime(t) == t.Value # 0

\* the structured times of one player, by discipline and period length
StructuredTimes(sys, len) ==
    CASE sys \in {ClockAbsolute, ClockFischer} ->
             {PlayerTime(0, 0, 0, tt, 0, 0, 0) : tt \in ThinkingTimes}
      [] sys = ClockByoyomi ->
             {PlayerTime(len, len, per, tt, 0, 0, 0) :
                  per \in 0..MaxPeriods, tt \in ThinkingTimes}
      [] sys = ClockCanadian ->
             {PlayerTime(0, 0, 0, tt, ml, bt, 0) :
                  tt \in ThinkingTimes, ml \in MovesLefts, bt \in BlockTimes}
      [] OTHER -> {ZeroTime}

\* both players' times: structured, or both the rengo variant
TimePairs(sys) ==
    UNION {StructuredTimes(sys, len) \X StructuredTimes(sys, len) :
               len \in PeriodLengths}
    \cup {<<RengoTime(d), RengoTime(d)>> : d \in Deadlines}

TimeControls ==
    {[System |-> sys, PeriodTime |-> pt, PerMove |-> pm] :
         sys \in Systems, pt \in ConfigPeriodTimes, pm \in PerMoves \cup {0}}

ValidTimeControl(cfg) ==
    /\ cfg.System = ClockByoyomi \/ cfg.PeriodTime = 0
    /\ IF cfg.System = ClockSimple THEN cfg.PerMove # 0 ELSE cfg.PerMove = 0

Clocks(sys) ==
    {[BlackPlayerID |-> PlayerIDs.black, BlackTime |-> pair[1],
      CurrentPlayerID |-> cur, LastMove |-> lm,
      WhitePlayerID |-> PlayerIDs.white, WhiteTime |-> pair[2],
      StartMode |-> sm, Now |-> nw] :
         pair \in TimePairs(sys), cur \in {PlayerIDs.black, PlayerIDs.white, 0},
         lm \in LastMoves, sm \in BOOLEAN, nw \in Nows}

----------------------------------------------------------------------------
(* The state machine *)

Init ==
    /\ wall = TickSecs
    /\ tc \in {cfg \in TimeControls : ValidTimeControl(cfg)}
    /\ clock \in Clocks(tc.System)
    /\ player = PlayerUnknown
    /\ result = NotCalled
    /\ fresh = FALSE
    /\ arg = NoArg
    /\ ret = None
    /\ back = None
    /\ pc = "idle"
    /\ client = [AccessToken |-> "", RefreshToken |-> "", ExpiresAt |-> 0,
                 UserJWT |-> "", UserID |-> 0, socket |-> FALSE]
    /\ file = [kind |-> "missing"]
    /\ refreshed = FALSE
    /\ loaded = None

\* wall-clock time passes
Tick ==
    /\ wall < MaxTicks * TickSecs
    /\ wall' = wall + TickSecs
    /\ fresh' = FALSE
    /\ UNCHANGED <<clock, tc, player, result>>
    /\ UNCHANGED <<libVars, loadVars>>

\* the player's time as a pointer into the snapshot: the time that is left
\* is stored back through it
ClockCountedDown(c, cfg, p, now) ==
    IF ~KnownPlayer(p)
    THEN c
    ELSE LET d == Deplete(TimeOf(c, p), Elapsed(c, IsTurn(c, p), now))
         IN  IF p = PlayerBlack
             THEN [c EXCEPT !.BlackTime.ThinkingTime = d.mainTime]
             ELSE [c EXCEPT !.WhiteTime.ThinkingTime = d.mainTime]

\* the snapshot after the call: t is a copy of c.BlackTime or c.WhiteTime
\* and everything computed is held in locals, nothing is stored through c
ClockAfter(c, cfg, p, now) == c

\* a caller evaluates the clock of player p now
Compute(p) ==
    /\ \E infInt \in InfAsInt :
           result' = ComputeClock(clock, tc, p, wall, infInt)
    /\ clock' = ClockAfter(clock, tc, p, wall)
    /\ player' = p
    /\ fresh' = TRUE
    /\ UNCHANGED <<wall, tc>>
    /\ UNCHANGED <<libVars, loadVars>>

Next ==
    \/ Tick
    \/ \E p \in PlayerColors : Compute(p)

Spec == Init /\ [][Next]_vars

\* time keeps passing and the caller keeps polling each player's clock
LiveSpec ==
    /\ Init /\ [][Next]_vars
    /\ WF_vars(Tick)
    /\ \A p \in PlayerColors : WF_vars(Compute(p))

----------------------------------------------------------------------------
(* ComputedClock.String and prettyTime *)

MaxDays == 2         \* most whole days in a duration handed to prettyTime

\* fmt's %.0f of a whole number, without the zero padding
NoPad(n) == ToString(n)

\* fmt's %02.0f of a whole number
Pad2(n) == IF n >= 0 /\ n < 10 THEN "0" \o ToString(n) ELSE ToString(n)

prettyTime(seconds) ==
    LET days == FloorDiv(seconds, 86400)
        s1 == seconds - days * 86400
        hours == FloorDiv(s1, 3600)
        s2 == s1 - hours * 3600
        minutes == FloorDiv(s2, 60)
        s3 == s2 - minutes * 60
    IN  IF days > 0
        THEN IF hours > 0
             THEN ToString(days) \o "d" \o ToString(hours) \o "h"
             ELSE ToString(days * 24) \o "h"
        ELSE IF hours > 0
        THEN ToString(hours) \o "h" \o cond(minutes > 0, ToString(minutes) \o "m", "")
        ELSE IF minutes > 0
        THEN ToString(minutes) \o ":" \o Pad2(s3)
        ELSE ToString(s3) \o "s"

\* byoyomi main time and period time joined by " + "
ComputedClockStringSpaced(c) ==
    IF c.TimedOut
    THEN "Timeout"
    ELSE CASE c.System \in {ClockAbsolute, ClockFischer, ClockSimple} ->
                  prettyTime(c.MainTime) \o cond(c.SuddenDeath, " (SD)", "")
           [] c.System = ClockByoyomi ->
                  IF c.SuddenDeath
                  THEN prettyTime(c.PeriodTimeLeft) \o " (SD)"
                  ELSE IF c.MainTime > 0
                  THEN prettyTime(c.MainTime) \o " + " \o prettyTime(c.PeriodTimeLeft)
                           \o " (" \o ToString(c.PeriodsLeft) \o ")"
                  ELSE prettyTime(c.PeriodTimeLeft)
                           \o " (" \o ToString(c.PeriodsLeft) \o ")"
           [] c.System = ClockCanadian ->
                  IF c.SuddenDeath
                  THEN prettyTime(c.BlockTimeLeft) \o "/" \o ToString(c.MovesLeft) \o " (SD)"
                  ELSE IF c.MainTime > 0
                  THEN prettyTime(c.MainTime) \o " +" \o prettyTime(c.BlockTimeLeft)
                           \o "/" \o ToString(c.MovesLeft)
                  ELSE prettyTime(c.BlockTimeLeft) \o "/" \o ToString(c.MovesLeft)
           [] OTHER -> "??:??"

\* ComputedClock.String
ComputedClockString(c) ==
    IF c.TimedOut
    THEN "Timeout"
    ELSE CASE c.System \in {ClockAbsolute, ClockFischer, ClockSimple} ->
                  prettyTime(c.MainTime) \o cond(c.SuddenDeath, " (SD)", "")
           [] c.System = ClockByoyomi ->
                  IF c.SuddenDeath
                  THEN prettyTime(c.PeriodTimeLeft) \o " (SD)"
                  ELSE IF c.MainTime > 0
                  THEN prettyTime(c.MainTime) \o " +" \o prettyTime(c.PeriodTimeLeft)
                           \o " (" \o ToString(c.PeriodsLeft) \o ")"
                  ELSE prettyTime(c.PeriodTimeLeft)
                           \o " (" \o ToString(c.PeriodsLeft) \o ")"
           [] c.System = ClockCanadian ->
                  IF c.SuddenDeath
                  THEN prettyTime(c.BlockTimeLeft) \o "/" \o ToString(c.MovesLeft) \o " (SD)"
                  ELSE IF c.MainTime > 0
                  THEN prettyTime(c.MainTime) \o " +" \o prettyTime(c.BlockTimeLeft)
                           \o "/" \o ToString(c.MovesLeft)
                  ELSE prettyTime(c.BlockTimeLeft) \o "/" \o ToString(c.MovesLeft)
           [] OTHER -> "??:??"

\* the ComputedClock values handed to String
ClockValues ==
    {ComputedClock(sys, main, 0, 0, 0, 0, sd, out) :
         sys \in {ClockAbsolute, ClockFischer, ClockSimple, "none"},
         main \in {0, 5, 75}, sd \in BOOLEAN, out \in BOOLEAN}
    \cup {ComputedClock(ClockByoyomi, main, per, ptl, 0, 0, sd, out) :
              main \in {0, 75}, per \in {1, 3}, ptl \in {0, 30},
              sd \in BOOLEAN, out \in BOOLEAN}
    \cup {ComputedClock(ClockCanadian, main, 0, 0, ml, bt, sd, out) :
              main \in {0, 75}, ml \in {1, 3}, bt \in {0, 15},
              sd \in BOOLEAN, out \in BOOLEAN}

\* the durations handed to prettyTime, whole seconds
Durations ==
    {d * 86400 + h * 3600 + m * 60 + sec :
         d \in 0..MaxDays, h \in {0, 1, 23}, m \in {0, 1, 59}, sec \in {0, 5, 59}}

----------------------------------------------------------------------------
(* OriginCoordinate and A1Coordinate *)

MaxBoardSize == 25   \* the largest board the client accepts
MaxRow == 25         \* the largest row NewA1Coordinate accepts

\* the printable ASCII characters, from ' ' (32) to '~' (126); the grave
\* accent (96) is spelled out
Printable ==
    <<" ", "!", "\"", "#", "$", "%", "&", "'", "(", ")", "*", "+",
       ",", "-", ".", "/", "0", "1", "2", "3", "4", "5", "6", "7",
       "8", "9", ":", ";", "<", "=", ">", "?", "@", "A", "B", "C",
       "D", "E", "F", "G", "H", "I", "J", "K", "L", "M", "N", "O",
       "P", "Q", "R", "S", "T", "U", "V", "W", "X", "Y", "Z", "[",
       "\\", "]", "^", "_", "(grave)", "a", "b", "c", "d", "e", "f", "g",
       "h", "i", "j", "k", "l", "m", "n", "o", "p", "q", "r", "s",
       "t", "u", "v", "w", "x", "y", "z", "{", "|", "}", "~">>

\* the character of a rune, as fmt's %c prints it
Chr(r) == Printable[r - 31]

\* a rune literal such as 'A'
Ord(ch) == 31 + CHOOSE i \in 1..Len(Printable) : Printable[i] = ch

OriginCoordinate(x, y) == [X |-> x, Y |-> y]

A1Coordinate(col, row) == [Col |-> col, Row |-> row]

\* skipping one column too late
SkipIAfter(x) == cond(x > 8, 1, 0)

\* col += 1 from the ninth column on
SkipI(x) == cond(x >= 8, 1, 0)

\* rows counted from zero
ZeroBasedCount(boardSize, y) == boardSize - y - 1

\* row := boardSize - c.Y
ReverseCount(boardSize, y) == boardSize - y

ToA1Coordinate(c, boardSize) ==
    IF c.X < 0 \/ c.X >= boardSize \/ c.Y < 0 \/ c.Y >= boardSize
    THEN Err
    ELSE Ok(A1Coordinate(Ord("A") + c.X + SkipI(c.X), ReverseCount(boardSize, c.Y)))

\* the column letter read as written
KeepCase(col) == col

\* col -= 'a' - 'A' for a lower-case letter
ToUpperCase(col) ==
    IF col >= Ord("a") /\ col <= Ord("z") THEN col - (Ord("a") - Ord("A")) ELSE col

ToOriginCoordinate(c, boardSize) ==
    LET col == ToUpperCase(c.Col)
        y == boardSize - c.Row
        InBounds(x) == ~(x < 0 \/ x >= boardSize \/ y < 0 \/ y >= boardSize)
    IN  IF col >= Ord("A") /\ col <= Ord("H")
        THEN IF InBounds(col - Ord("A"))
             THEN Ok(OriginCoordinate(col - Ord("A"), y))
             ELSE Err
        ELSE IF col >= Ord("J") /\ col <= Ord("T")
        THEN IF InBounds(col - Ord("A") - 1)
             THEN Ok(OriginCoordinate(col - Ord("A") - 1, y))
             ELSE Err
        ELSE Err

MaxLen == 3          \* most bytes in a string handed to NewA1Coordinate

RECURSIVE Decimal(_)
\* the value of a run of decimal digits
Decimal(digits) ==
    IF digits = <<>>
    THEN 0
    ELSE Decimal(SubSeq(digits, 1, Len(digits) - 1)) * 10
             + (digits[Len(digits)] - Ord("0"))

\* strconv.Atoi: an optional sign and at least one decimal digit
Atoi(s) ==
    LET signed == s # <<>> /\ s[1] \in {Ord("+"), Ord("-")}
        digits == IF signed THEN Tail(s) ELSE s
    IN  IF digits = <<>>
           \/ \E i \in 1..Len(digits) : digits[i] < Ord("0") \/ digits[i] > Ord("9")
        THEN Err
        ELSE Ok(IF signed /\ s[1] = Ord("-") THEN -Decimal(digits) ELSE Decimal(digits))

\* strings.ToUpper(coord)[0]: the first byte of the upper-cased string. An
\* ASCII first byte is upper-cased in place; the bytes C5 BF are the rune
\* U+017F, whose upper case is 'S'; any other first byte here is not valid
\* UTF-8 and becomes U+FFFD, whose first byte is EF.
UpperFirstByte(coord) ==
    IF coord[1] < 128
    THEN IF coord[1] >= Ord("a") /\ coord[1] <= Ord("z")
         THEN coord[1] - (Ord("a") - Ord("A"))
         ELSE coord[1]
    ELSE IF coord[1] = 197 /\ coord[2] = 191
    THEN Ord("S")
    ELSE 239

\* row 25 refused
FromMaxRow(rowNum) == rowNum >= MaxRow

\* rowNum > 25
AboveMaxRow(rowNum) == rowNum > MaxRow

NewA1Coordinate(coord) ==
    IF Len(coord) < 2
    THEN Err
    ELSE LET col == UpperFirstByte(coord)
             rowNum == Atoi(Tail(coord))
         IN  IF col < Ord("A") \/ col > Ord("Z") \/ col = Ord("I")
             THEN Err
             ELSE IF rowNum.kind = "err" \/ rowNum.val <= 0 \/ AboveMaxRow(rowNum.val)
             THEN Err
             ELSE Ok(A1Coordinate(col, rowNum.val))

\* the bytes coordinate strings are made of: letters at the edges of the
\* alphabet, 'I', digits, signs, and the two bytes of U+017F
CoordBytes ==
    {Ord("A"), Ord("a"), Ord("I"), Ord("i"), Ord("Z"), Ord("["),
     Ord("0"), Ord("1"), Ord("2"), Ord("5"), Ord("6"), Ord("-"), Ord("+"),
     197, 191}

CoordStrings ==
    {[kind |-> "str", coord |-> str] :
         str \in UNION {[1..n -> CoordBytes] : n \in 0..MaxLen}}

\* the board sizes the conversions are asked about
BoardSizes == {1, 9, 19, 20, MaxBoardSize}

\* origin coordinates on and just off the largest board, with the pass (-1,-1)
OriginInputs ==
    {[kind |-> "origin", c |-> OriginCoordinate(x, y), size |-> n] :
         x \in -1..MaxBoardSize, y \in -1..MaxBoardSize, n \in BoardSizes}

\* column runes around the upper-case and the lower-case letters
ColumnRunes == (Ord("@")..Ord("[")) \cup ((Ord("a") - 1)..Ord("{"))

A1Inputs ==
    {[kind |-> "a1", c |-> A1Coordinate(col, row), size |-> n] :
         col \in ColumnRunes, row \in -1..(MaxRow + 1), n \in BoardSizes}

----------------------------------------------------------------------------
(* Player, Game and GameState *)

PlayPhase == "play"
StoneRemovalPhase == "stone removal"
FinishedPhase == "finished"

\* Player.Rank is held in units of 1/RankScale
RankScale == 10000

\* the fraction cut off
RoundDown(n) == FloorDiv(n, RankScale)

\* fmt's %.f: to the nearest whole number, a tie to the even one
RoundHalfEven(n) ==
    LET q == FloorDiv(n, RankScale)
        r == n - q * RankScale
    IN  IF 2 * r < RankScale THEN q
        ELSE IF 2 * r > RankScale THEN q + 1
        ELSE IF q % 2 = 0 THEN q
        ELSE q + 1

Player(id, name, pro, rank) ==
    [ID |-> id, Username |-> name, Professional |-> pro, Rank |-> rank]

\* Player{}, what a lookup in PlayerPool yields for a missing key
ZeroPlayer == Player(0, "", FALSE, 0)

Ranking(p) ==
    IF p.Professional
    THEN ToString(RoundHalfEven(p.Rank - 36 * RankScale)) \o "p"
    ELSE IF p.Rank >= 1037 * RankScale
    THEN ToString(RoundHalfEven(p.Rank - 1036 * RankScale)) \o "p"
    ELSE IF p.Rank >= 30 * RankScale
    THEN ToString(RoundHalfEven(p.Rank - 29 * RankScale)) \o "d"
    ELSE IF p.Rank >= 1 * RankScale
    THEN ToString(30 - FloorDiv(p.Rank, RankScale)) \o "k"
    ELSE "?"

PlayerString(p) == p.Username \o "[" \o Ranking(p) \o "]"

\* fmt's %q of a name that needs no escaping
Quote(str) == "\"" \o str \o "\""

BlackPlayerTitle(g) == "(B) " \o PlayerString(g.Players.Black)

WhitePlayerTitle(g) == "(W) " \o PlayerString(g.Players.White)

GameString(g) ==
    LET whoseTurn == cond(g.Clock.CurrentPlayerID = g.Players.Black.ID, "Black", "White")
    IN  ToString(g.GameID) \o " " \o Quote(g.GameName) \o " "
            \o BlackPlayerTitle(g) \o " vs " \o WhitePlayerTitle(g) \o ", "
            \o ToString(g.Moves) \o " moves, " \o whoseTurn \o " to play"

BoardSize(g) == g.Height

IsMyGame(g, myUserID) ==
    LET key == ToString(myUserID)
        found == IF key \in DOMAIN g.PlayerPool THEN g.PlayerPool[key] ELSE ZeroPlayer
    IN  found.ID = myUserID

\* cond(g.WinnerID == g.BlackPlayerID, ...)
WinnerTitle(g) ==
    cond(g.WinnerID = g.BlackPlayerID, BlackPlayerTitle(g), WhitePlayerTitle(g))

GameResult(g) ==
    IF g.Phase # FinishedPhase
    THEN ""
    ELSE WinnerTitle(g) \o " won by " \o g.Outcome

IsPass(c) == c.X = -1 \/ c.Y = -1

A1String(c) == Chr(c.Col) \o ToString(c.Row)

\* fmt's %s of the pointer ToA1Coordinate returned
A1Text(a1) == IF a1.kind = "ok" THEN A1String(a1.val) ELSE "<nil>"

\* turn and whoPlayed
TurnWording(g, state, myUserID) ==
    IF IsMyGame(g, myUserID)
    THEN [turn |-> cond(state.PlayerToMove = myUserID, "your", "opponent's"),
          whoPlayed |-> cond(state.PlayerToMove = myUserID, "Opponent", "You")]
    ELSE [turn |-> cond(state.PlayerToMove = g.BlackPlayerID, "Black's", "White's"),
          whoPlayed |-> cond(state.PlayerToMove = g.BlackPlayerID, "White", "Black")]

GameStatus(g, state, myUserID) ==
    IF state.kind = "nil"
    THEN GameString(g) \o " (unknown board state)"
    ELSE IF state.MoveNumber = 0
    THEN "Game ready, " \o BlackPlayerTitle(g) \o " to start"
    ELSE IF state.Phase = FinishedPhase
    THEN "Game has finished, " \o GameResult(g)
    ELSE LET w == TurnWording(g, state, myUserID)
         IN  IF IsPass(state.LastMove)
             THEN ToString(state.MoveNumber) \o " moves. " \o w.whoPlayed
                      \o " passed, " \o w.turn \o " turn"
             ELSE ToString(state.MoveNumber) \o " moves. " \o w.whoPlayed
                      \o " played " \o A1Text(ToA1Coordinate(state.LastMove, BoardSize(g)))
                      \o ", " \o w.turn \o " turn"

Players == [Black |-> Player(PlayerIDs.black, "alice", FALSE, 25 * RankScale),
            White |-> Player(PlayerIDs.white, "bob", FALSE, 32 * RankScale)]

Game(height, phase, outcome, winner, current) ==
    [GameID |-> 42, GameName |-> "Friendly",
     BlackPlayerID |-> Players.Black.ID, WhitePlayerID |-> Players.White.ID,
     Players |-> Players,
     PlayerPool |-> (ToString(Players.Black.ID) :> Players.Black)
                        @@ (ToString(Players.White.ID) :> Players.White),
     Height |-> height, Moves |-> 7, Phase |-> phase,
     Outcome |-> outcome, WinnerID |-> winner,
     Clock |-> [CurrentPlayerID |-> current]]

\* games in play, and finished games won by Black, by White or by neither
Games ==
    {Game(h, PlayPhase, "", 0, cur) :
         h \in {9, 19}, cur \in {Players.Black.ID, Players.White.ID}}
    \cup {Game(h, FinishedPhase, "Resignation", w, cur) :
              h \in {9, 19}, w \in {0, Players.Black.ID, Players.White.ID},
              cur \in {Players.Black.ID, Players.White.ID}}

GameState(phase, n, last, toMove) ==
    [kind |-> "state", Phase |-> phase, MoveNumber |-> n,
     LastMove |-> last, PlayerToMove |-> toMove]

\* a pass, moves on the board, and coordinates off it
StateLastMoves ==
    {OriginCoordinate(-1, -1), OriginCoordinate(3, 3), OriginCoordinate(8, 0),
     OriginCoordinate(-1, 3), OriginCoordinate(19, 0)}

GameStates ==
    {Nil} \cup {GameState(ph, n, last, to) :
                    ph \in {PlayPhase, StoneRemovalPhase, FinishedPhase},
                    n \in {0, 7}, last \in StateLastMoves,
                    to \in {Players.Black.ID, Players.White.ID}}

\* both players, a spectator, and the ID of a client that never logged in
Viewers == {0, Players.Black.ID, Players.White.ID, 3}

StatusInputs ==
    {[kind |-> "status", g |-> g, state |-> st, viewer |-> v] :
         g \in Games, st \in GameStates, v \in Viewers}

GameInputs == {[kind |-> "game", g |-> g] : g \in Games}

\* ranks in units of 1/RankScale: the thresholds 1, 30 and 1037, values
\* just below and above them, halves and other fractions
RankValues ==
    {0, 9999, 10000, 253000, 299999, 300000, 300001, 305000, 306000, 315000,
     360000, 390000, 440000, 454000, 10369999, 10370000, 10371000, 10457000}

\* professionals hold a rank of 36 or more
RankInputs ==
    {[kind |-> "rank", p |-> Player(7, "carol", pro, r)] :
         pro \in {FALSE}, r \in RankValues}
    \cup {[kind |-> "rank", p |-> Player(7, "carol", pro, r)] :
              pro \in {TRUE}, r \in {v \in RankValues : v >= 36 * RankScale}}

----------------------------------------------------------------------------
(* Timestamp.UnmarshalJSON *)

\* Unix timestamps exceed the integers of the checker: an int64 is held as
\* its sign and the decimal digits of its magnitude, without leading zeros.
Int64(neg, mag) == [neg |-> neg, mag |-> mag]

\* 1_000_000_000_000
MilliThreshold == <<1, 0, 0, 0, 0, 0, 0, 0, 0, 0, 0, 0, 0>>

\* math.MaxInt64, 9223372036854775807
MaxInt64 == <<9, 2, 2, 3, 3, 7, 2, 0, 3, 6, 8, 5, 4, 7, 7, 5, 8, 0, 7>>

\* the magnitude of math.MinInt64
MinInt64 == <<9, 2, 2, 3, 3, 7, 2, 0, 3, 6, 8, 5, 4, 7, 7, 5, 8, 0, 8>>

RECURSIVE Canon(_)
\* leading zeros dropped
Canon(digits) ==
    IF Len(digits) > 1 /\ digits[1] = 0 THEN Canon(Tail(digits)) ELSE digits

\* a > b on digits without leading zeros
DigitsGreater(a, b) ==
    \/ Len(a) > Len(b)
    \/ /\ Len(a) = Len(b)
       /\ \E i \in 1..Len(a) : a[i] > b[i] /\ \A j \in 1..(i - 1) : a[j] = b[j]

\* the bytes of a text given character by character
Bytes(chars) == [i \in 1..Len(chars) |-> Ord(chars[i])]

\* the decimal text of an int64
Bare(n) ==
    (IF n.neg THEN <<Ord("-")>> ELSE <<>>)
        \o [i \in 1..Len(n.mag) |-> Ord("0") + n.mag[i]]

\* strconv.ParseInt(s, 10, 64)
ParseInt(s) ==
    LET signed == s # <<>> /\ s[1] \in {Ord("+"), Ord("-")}
        neg == signed /\ s[1] = Ord("-")
        body == IF signed THEN Tail(s) ELSE s
        mag == Canon([i \in 1..Len(body) |-> body[i] - Ord("0")])
    IN  IF body = <<>>
           \/ \E i \in 1..Len(body) : body[i] < Ord("0") \/ body[i] > Ord("9")
        THEN Err
        ELSE IF DigitsGreater(mag, IF neg THEN MinInt64 ELSE MaxInt64)
        THEN Err
        ELSE Ok(Int64(neg /\ mag # <<0>>, mag))

\* time.Time{}, time.Unix(ts, 0) and time.UnixMilli(ts)
ZeroInstant == [unit |-> "zero"]
Unix(ts) == [unit |-> "s", n |-> ts]
UnixMilli(ts) == [unit |-> "ms", n |-> ts]

\* what a decoder leaves: its error and the receiver after the call
Decoded(err, v) == [kind |-> "decoded", err |-> err, val |-> v]

\* milliseconds from the threshold on
FromThreshold(ts) == ~ts.neg /\ ~DigitsGreater(MilliThreshold, ts.mag)

\* ts > 1_000_000_000_000
AboveThreshold(ts) == ~ts.neg /\ DigitsGreater(ts.mag, MilliThreshold)

TimestampUnmarshalJSON(t, b) ==
    LET ts == ParseInt(b)
    IN  IF ts.kind = "err"
        THEN Decoded(TRUE, t)
        ELSE IF AboveThreshold(ts.val)
        THEN Decoded(FALSE, UnixMilli(ts.val))
        ELSE Decoded(FALSE, Unix(ts.val))

\* integers around the seconds/milliseconds threshold and at the ends of int64
Int64Values ==
    {Int64(FALSE, <<0>>), Int64(TRUE, <<5>>),
     Int64(FALSE, <<1, 6, 7, 2, 5, 3, 1, 2, 0, 0>>),
     Int64(FALSE, <<9, 9, 9, 9, 9, 9, 9, 9, 9, 9, 9, 9>>),
     Int64(FALSE, MilliThreshold),
     Int64(FALSE, <<1, 0, 0, 0, 0, 0, 0, 0, 0, 0, 0, 0, 1>>),
     Int64(FALSE, <<1, 6, 7, 2, 5, 3, 1, 2, 0, 0, 0, 0, 0>>),
     Int64(TRUE, <<1, 6, 7, 2, 5, 3, 1, 2, 0, 0, 0, 0, 0>>),
     Int64(FALSE, MaxInt64), Int64(TRUE, MinInt64)}

\* texts that are no int64: quoted, empty, a fraction, an exponent, null,
\* blanks, a lone sign, and one past math.MaxInt64
NotInt64 ==
    {Bytes(<<"\"", "n", "o", "t", " ", "a", " ", "n", "u", "m", "b", "e", "r", "\"">>),
     Bytes(<<"\"", "\"">>), <<>>, Bytes(<<"1", ".", "5">>), Bytes(<<"1", "e", "3">>),
     Bytes(<<"n", "u", "l", "l">>), Bytes(<<" ", "5">>), Bytes(<<"-">>),
     Bare(Int64(FALSE, MinInt64))}

\* the Timestamp before the call: fresh, or holding an earlier instant
PriorInstants == {ZeroInstant, Unix(Int64(FALSE, <<7>>))}

TimestampInputs ==
    {[kind |-> "ts", b |-> Bare(n), n |-> Ok(n), t |-> t0] :
         n \in Int64Values, t0 \in PriorInstants}
    \cup {[kind |-> "ts", b |-> txt, n |-> Err, t |-> t0] :
              txt \in NotInt64, t0 \in PriorInstants}

----------------------------------------------------------------------------
(* PlayerTime.UnmarshalJSON *)

\* a JSON text as encoding/json sees it: the kind of its value ("invalid"
\* when it is not JSON), its bytes, and for an object the PlayerTime fields
\* it carries and whether each has the type of its field
JsonValue(jk, raw, fields, typed) ==
    [jk |-> jk, raw |-> raw, fields |-> fields, typed |-> typed]

\* PlayerTime{} with the Timestamp of the decoders
FreshTime == PlayerTime(0, 0, 0, 0, 0, 0, ZeroInstant)

\* json.Unmarshal(data, &t.Value): every JSON value is handed to
\* Timestamp.UnmarshalJSON as it stands
UnmarshalValue(value, data) ==
    IF data.jk = "invalid"
    THEN Decoded(TRUE, value)
    ELSE TimestampUnmarshalJSON(value, data.raw)

\* json.Unmarshal(data, &pt) for the method-less alias: an object fills the
\* fields, null is accepted and changes nothing, any other value is a type
\* error
UnmarshalAlias(data) ==
    CASE data.jk = "object" /\ data.typed -> Decoded(FALSE, data.fields)
      [] data.jk = "null" -> Decoded(FALSE, FreshTime)
      [] OTHER -> Decoded(TRUE, FreshTime)

\* what PlayerTime.UnmarshalJSON leaves, with the attempts it made in order
Attempted(err, t, tried) == [kind |-> "decoded", err |-> err, val |-> t, tried |-> tried]

\* the structured record tried first
PlayerTimeStructuredFirst(t, data) ==
    LET pt == UnmarshalAlias(data)
        value == UnmarshalValue(t.Value, data)
    IN  IF ~pt.err
        THEN Attempted(FALSE, pt.val, <<"structured">>)
        ELSE IF ~value.err
        THEN Attempted(FALSE, [t EXCEPT !.Value = value.val], <<"structured", "simple">>)
        ELSE Attempted(TRUE, t, <<"structured", "simple">>)

PlayerTimeUnmarshalJSON(t, data) ==
    LET value == UnmarshalValue(t.Value, data)
        pt == UnmarshalAlias(data)
    IN  IF ~value.err
        THEN Attempted(FALSE, [t EXCEPT !.Value = value.val], <<"simple">>)
        ELSE IF pt.err
        THEN Attempted(TRUE, t, <<"simple", "structured">>)
        ELSE Attempted(FALSE, pt.val, <<"simple", "structured">>)

\* structured records as the server sends them, and the empty object
WireRecords ==
    {PlayerTime(30, 30, 2, 40, 0, 0, ZeroInstant),
     PlayerTime(0, 0, 0, 0, 3, 20, ZeroInstant),
     PlayerTime(0, 0, 0, 40, 0, 0, ZeroInstant),
     FreshTime}

\* JSON texts with the shape each is meant to have
JsonTexts ==
    {[shape |-> "simple", n |-> n, data |-> JsonValue("number", Bare(n), FreshTime, TRUE)] :
         n \in {Int64(FALSE, <<1, 6, 7, 2, 5, 3, 1, 2, 0, 0>>),
                Int64(FALSE, <<1, 6, 7, 2, 5, 3, 1, 2, 0, 0, 0, 0, 0>>)}}
    \cup {[shape |-> "structured", n |-> Int64(FALSE, <<0>>),
           data |-> JsonValue("object", Bytes(<<"{", "}">>), r, TRUE)] : r \in WireRecords}
    \cup {[shape |-> "neither", n |-> Int64(FALSE, <<0>>), data |-> d] :
              d \in {JsonValue("number", Bytes(<<"1", ".", "5">>), FreshTime, TRUE),
                     JsonValue("string", Bytes(<<"\"", "a", "\"">>), FreshTime, TRUE),
                     JsonValue("bool", Bytes(<<"t", "r", "u", "e">>), FreshTime, TRUE),
                     JsonValue("array", Bytes(<<"[", "1", "]">>), FreshTime, TRUE),
                     JsonValue("null", Bytes(<<"n", "u", "l", "l">>), FreshTime, TRUE),
                     JsonValue("object", Bytes(<<"{", "}">>),
                               PlayerTime(0, 0, 0, 40, 0, 0, ZeroInstant), FALSE),
                     JsonValue("invalid", Bytes(<<"{">>), FreshTime, TRUE)}}

\* the PlayerTime before the call: fresh, structured, or holding a Value
PriorTimes ==
    {FreshTime,
     PlayerTime(20, 20, 1, 10, 0, 0, ZeroInstant),
     PlayerTime(0, 0, 0, 0, 0, 0, Unix(Int64(FALSE, <<7>>)))}

PlayerTimeInputs ==
    {[kind |-> "pt", json |-> j, t |-> t0] : j \in JsonTexts, t0 \in PriorTimes}

----------------------------------------------------------------------------
(* The formatters and converters applied to one input *)

LibInputs ==
    {[kind |-> "clock", cc |-> c] : c \in ClockValues}
    \cup {[kind |-> "secs", s |-> d] : d \in Durations}
    \cup OriginInputs
    \cup A1Inputs
    \cup CoordStrings
    \cup StatusInputs
    \cup GameInputs
    \cup RankInputs
    \cup TimestampInputs
    \cup PlayerTimeInputs

\* the clock variables while no clock is being computed
ClockIdle ==
    /\ wall = TickSecs
    /\ tc = [System |-> "none", PeriodTime |-> 0, PerMove |-> 0]
    /\ clock = [BlackPlayerID |-> PlayerIDs.black, BlackTime |-> ZeroTime,
                CurrentPlayerID |-> 0, LastMove |-> 0,
                WhitePlayerID |-> PlayerIDs.white, WhiteTime |-> ZeroTime,
                StartMode |-> FALSE, Now |-> 0]
    /\ player = PlayerUnknown
    /\ result = NotCalled
    /\ fresh = FALSE

LibInit ==
    /\ ClockIdle
    /\ arg \in LibInputs
    /\ ret = None
    /\ back = None
    /\ pc = "idle"
    /\ client = [AccessToken |-> "", RefreshToken |-> "", ExpiresAt |-> 0,
                 UserJWT |-> "", UserID |-> 0, socket |-> FALSE]
    /\ file = [kind |-> "missing"]
    /\ refreshed = FALSE
    /\ loaded = None

CallString ==
    /\ arg.kind = "clock" /\ ret = None
    /\ ret' = Ok(ComputedClockString(arg.cc))
    /\ UNCHANGED <<arg, back>>
    /\ UNCHANGED <<clockVars, loadVars>>

CallPrettyTime ==
    /\ arg.kind = "secs" /\ ret = None
    /\ ret' = Ok(prettyTime(arg.s))
    /\ UNCHANGED <<arg, back>>
    /\ UNCHANGED <<clockVars, loadVars>>

CallToA1Coordinate ==
    /\ arg.kind = "origin" /\ ret = None
    /\ ret' = ToA1Coordinate(arg.c, arg.size)
    /\ UNCHANGED <<arg, back>>
    /\ UNCHANGED <<clockVars, loadVars>>

CallToOriginCoordinate ==
    /\ arg.kind = "a1" /\ ret = None
    /\ ret' = ToOriginCoordinate(arg.c, arg.size)
    /\ UNCHANGED <<arg, back>>
    /\ UNCHANGED <<clockVars, loadVars>>

\* the A1Coordinate just produced, converted back on the same board
BackToOriginCoordinate ==
    /\ arg.kind = "origin" /\ ret.kind = "ok" /\ back = None
    /\ back' = ToOriginCoordinate(ret.val, arg.size)
    /\ UNCHANGED <<arg, ret>>
    /\ UNCHANGED <<clockVars, loadVars>>

\* the OriginCoordinate just produced, converted back on the same board
BackToA1Coordinate ==
    /\ arg.kind = "a1" /\ ret.kind = "ok" /\ back = None
    /\ back' = ToA1Coordinate(ret.val, arg.size)
    /\ UNCHANGED <<arg, ret>>
    /\ UNCHANGED <<clockVars, loadVars>>

CallNewA1Coordinate ==
    /\ arg.kind = "str" /\ ret = None
    /\ ret' = NewA1Coordinate(arg.coord)
    /\ UNCHANGED <<arg, back>>
    /\ UNCHANGED <<clockVars, loadVars>>

CallStatus ==
    /\ arg.kind = "status" /\ ret = None
    /\ ret' = Ok(GameStatus(arg.g, arg.state, arg.viewer))
    /\ UNCHANGED <<arg, back>>
    /\ UNCHANGED <<clockVars, loadVars>>

CallResult ==
    /\ arg.kind = "game" /\ ret = None
    /\ ret' = Ok(GameResult(arg.g))
    /\ UNCHANGED <<arg, back>>
    /\ UNCHANGED <<clockVars, loadVars>>

CallRanking ==
    /\ arg.kind = "rank" /\ ret = None
    /\ ret' = Ok(Ranking(arg.p))
    /\ UNCHANGED <<arg, back>>
    /\ UNCHANGED <<clockVars, loadVars>>

CallTimestampUnmarshalJSON ==
    /\ arg.kind = "ts" /\ ret = None
    /\ ret' = TimestampUnmarshalJSON(arg.t, arg.b)
    /\ UNCHANGED <<arg, back>>
    /\ UNCHANGED <<clockVars, loadVars>>

CallPlayerTimeUnmarshalJSON ==
    /\ arg.kind = "pt" /\ ret = None
    /\ ret' = PlayerTimeUnmarshalJSON(arg.t, arg.json.data)
    /\ UNCHANGED <<arg, back>>
    /\ UNCHANGED <<clockVars, loadVars>>

LibNext ==
    \/ CallString
    \/ CallPrettyTime
    \/ CallToA1Coordinate
    \/ CallToOriginCoordinate
    \/ BackToOriginCoordinate
    \/ BackToA1Coordinate
    \/ CallNewA1Coordinate
    \/ CallStatus
    \/ CallResult
    \/ CallRanking
    \/ CallTimestampUnmarshalJSON
    \/ CallPlayerTimeUnmarshalJSON

LibSpec == LibInit /\ [][LibNext]_vars

----------------------------------------------------------------------------
(* LoadClient and MaybeRefresh *)

\* the refresh deadline of LoadClient and the lifetimes the token endpoint
\* hands out, in days; ExpiresAt is counted in days from time.Now()
RefreshDeadline == 7
ExpiresIns == {1, 7, 30}

\* new(Client)
ZeroClient ==
    [AccessToken |-> "", RefreshToken |-> "", ExpiresAt |-> 0,
     UserJWT |-> "", UserID |-> 0, socket |-> FALSE]

\* the fields of a Client that Save persists
Credentials(cl) ==
    [AccessToken |-> cl.AccessToken, RefreshToken |-> cl.RefreshToken,
     ExpiresAt |-> cl.ExpiresAt, UserJWT |-> cl.UserJWT]

SecretFile(creds) == [kind |-> "json", creds |-> creds]

\* what a secret file can hold before LoadClient runs
SecretFiles ==
    {[kind |-> "missing"], [kind |-> "garbage"]}
    \cup {SecretFile([AccessToken |-> "old", RefreshToken |-> r, ExpiresAt |-> e,
                      UserJWT |-> "old"]) :
              r \in {"", "old"}, e \in {-1, 0, 6, 7, 8, 30}}

\* refresh only once the token has expired
Expired(expiresAt, deadline) == 0 > expiresAt

\* time.Now().Add(deadline).After(c.ExpiresAt)
Expiring(expiresAt, deadline) == deadline > expiresAt

LoadError == [kind |-> "err"]
Loaded(cl) == [kind |-> "client", c |-> cl]

\* a program calls LoadClient(secretFile)
LoadInit ==
    /\ ClockIdle
    /\ arg = NoArg /\ ret = None /\ back = None
    /\ pc = "read"
    /\ client = ZeroClient
    /\ file \in SecretFiles
    /\ refreshed = FALSE
    /\ loaded = None

\* os.ReadFile and json.Unmarshal into the Client
LoadClientRead ==
    /\ pc = "read"
    /\ IF file.kind = "json"
       THEN /\ client' = [ZeroClient EXCEPT !.AccessToken = file.creds.AccessToken,
                                       !.RefreshToken = file.creds.RefreshToken,
                                       !.ExpiresAt = file.creds.ExpiresAt,
                                       !.UserJWT = file.creds.UserJWT]
            /\ pc' = "maybe"
            /\ loaded' = loaded
       ELSE /\ pc' = "done"
            /\ loaded' = LoadError
            /\ client' = client
    /\ UNCHANGED <<file, refreshed>>
    /\ UNCHANGED <<clockVars, libVars>>

\* c.MaybeRefresh(7 days) with refreshToken and authenticate inside it; each
\* request to the server succeeds or fails
MaybeRefresh ==
    /\ pc = "maybe"
    /\ \E me \in BOOLEAN, post \in {"fail", "garbage", "ok"}, config \in BOOLEAN,
          expiresIn \in ExpiresIns :
           LET expiring == Expiring(client.ExpiresAt, RefreshDeadline)
               probed == IF expiring THEN client
                         ELSE IF me THEN [client EXCEPT !.UserID = 1] ELSE client
               token == [probed EXCEPT !.AccessToken = "new", !.RefreshToken = "new",
                                       !.ExpiresAt = expiresIn]
           IN  IF ~expiring /\ me
               THEN /\ client' = probed /\ refreshed' = FALSE
                    /\ pc' = "save" /\ loaded' = loaded
               ELSE IF client.RefreshToken = "" \/ post # "ok"
               THEN /\ client' = probed /\ refreshed' = FALSE
                    /\ pc' = "done" /\ loaded' = LoadError
               ELSE IF ~config
               THEN /\ client' = token /\ refreshed' = FALSE
                    /\ pc' = "done" /\ loaded' = LoadError
               ELSE /\ client' = [token EXCEPT !.UserJWT = "new"] /\ refreshed' = TRUE
                    /\ pc' = "save" /\ loaded' = loaded
    /\ UNCHANGED file
    /\ UNCHANGED <<clockVars, libVars>>

\* if refreshed, c.Save(secretFile)
LoadClientSave ==
    /\ pc = "save"
    /\ IF ~refreshed
       THEN pc' = "identify" /\ UNCHANGED <<file, loaded>>
       ELSE \E written \in BOOLEAN :
                IF written
                THEN /\ file' = SecretFile(Credentials(client))
                     /\ pc' = "identify" /\ loaded' = loaded
                ELSE /\ pc' = "done" /\ loaded' = LoadError
                     /\ file' = file
    /\ UNCHANGED <<client, refreshed>>
    /\ UNCHANGED <<clockVars, libVars>>

\* c.Identify()
LoadClientIdentify ==
    /\ pc = "identify"
    /\ \E me \in BOOLEAN :
           IF me
           THEN client' = [client EXCEPT !.UserID = 1] /\ pc' = "connect" /\ loaded' = loaded
           ELSE client' = client /\ pc' = "done" /\ loaded' = LoadError
    /\ UNCHANGED <<file, refreshed>>
    /\ UNCHANGED <<clockVars, libVars>>

\* c.connect(), then return &c
LoadClientConnect ==
    /\ pc = "connect"
    /\ \E dialled \in BOOLEAN, emitted \in BOOLEAN :
           /\ client' = [client EXCEPT !.socket = dialled]
           /\ loaded' = IF dialled /\ emitted THEN Loaded(client') ELSE LoadError
    /\ pc' = "done"
    /\ UNCHANGED <<file, refreshed>>
    /\ UNCHANGED <<clockVars, libVars>>

LoadNext ==
    \/ LoadClientRead
    \/ MaybeRefresh
    \/ LoadClientSave
    \/ LoadClientIdentify
    \/ LoadClientConnect

LoadSpec == LoadInit /\ [][LoadNext]_vars

----------------------------------------------------------------------------
(* The clock and the formatters called in any order *)

\* snapshots of a started game with Black on turn
CoreClocks(sys) ==
    {k \in Clocks(sys) :
         ~k.StartMode /\ k.Now = 0 /\ k.CurrentPlayerID = k.BlackPlayerID}

\* one input or two of each kind
CoreInputs ==
    {[kind |-> "origin", c |-> OriginCoordinate(3, 3), size |-> 19],
     [kind |-> "origin", c |-> OriginCoordinate(-1, -1), size |-> 19],
     [kind |-> "a1", c |-> A1Coordinate(Ord("j"), 10), size |-> 19],
     [kind |-> "status", g |-> Game(19, PlayPhase, "", 0, Players.Black.ID),
      state |-> GameState(PlayPhase, 7, OriginCoordinate(3, 3), Players.Black.ID),
      viewer |-> Players.Black.ID],
     [kind |-> "status", g |-> Game(19, PlayPhase, "", 0, Players.Black.ID),
      state |-> Nil, viewer |-> Players.Black.ID],
     [kind |-> "game", g |-> Game(19, FinishedPhase, "Resignation",
                                  Players.White.ID, Players.Black.ID)]}
    \cup {CHOOSE a \in LibInputs : a.kind = "clock" /\ a.cc.SuddenDeath}
    \cup {CHOOSE a \in LibInputs : a.kind = "secs" /\ a.s > 0}
    \cup {CHOOSE a \in CoordStrings : NewA1Coordinate(a.coord).kind = "ok"}
    \cup {CHOOSE a \in RankInputs : TRUE}
    \cup {CHOOSE a \in TimestampInputs : TRUE}
    \cup {CHOOSE a \in PlayerTimeInputs : TRUE}

CoreInit ==
    /\ wall = TickSecs
    /\ tc \in {cfg \in TimeControls : ValidTimeControl(cfg)}
    /\ clock \in CoreClocks(tc.System)
    /\ player = PlayerUnknown
    /\ result = NotCalled
    /\ fresh = FALSE
    /\ arg \in CoreInputs
    /\ ret = None
    /\ back = None
    /\ pc = "idle"
    /\ client = ZeroClient
    /\ file = [kind |-> "missing"]
    /\ refreshed = FALSE
    /\ loaded = None

CoreNext ==
    \/ Next
    \/ LibNext

CoreSpec == CoreInit /\ [][CoreNext]_vars

----------------------------------------------------------------------------
(* The latest call, as the properties below read it *)

Called == result.kind # "none"

\* the latest call asked for Black or White and nothing has changed since
Asked == fresh /\ player \in {PlayerBlack, PlayerWhite}

QTime == IF player = PlayerBlack THEN clock.BlackTime ELSE clock.WhiteTime

QOnTurn ==
    clock.CurrentPlayerID =
        (IF player = PlayerBlack THEN clock.BlackPlayerID ELSE clock.WhitePlayerID)

\* seconds from the snapshot's LastMove to the call while the clock runs
QElapsed == IF QOnTurn /\ ~clock.StartMode THEN wall - clock.LastMove ELSE 0

QPool == IF tc.System = ClockSimple THEN tc.PerMove ELSE QTime.ThinkingTime

QOverTime == Max(0, QElapsed - QTime.ThinkingTime)

\* the colour and the PlayerTime of the player on turn
TurnColor ==
    IF clock.CurrentPlayerID = clock.BlackPlayerID THEN PlayerBlack ELSE PlayerWhite

TurnTime == IF TurnColor = PlayerBlack THEN clock.BlackTime ELSE clock.WhiteTime

\* all the time the player on turn can use before the timeout: the pool, and
\* the periods or the block after it
TurnBudget ==
    CASE tc.System \in {ClockAbsolute, ClockFischer} -> TurnTime.ThinkingTime
      [] tc.System = ClockSimple -> tc.PerMove
      [] tc.System = ClockByoyomi ->
             TurnTime.ThinkingTime + TurnTime.Periods * tc.PeriodTime
      [] tc.System = ClockCanadian -> TurnTime.ThinkingTime + TurnTime.BlockTime
      [] OTHER -> 0

\* the clock of a known player runs and its budget ends within the run
TurnRuns ==
    /\ tc.System \in ClockSystem
    /\ clock.CurrentPlayerID \in {clock.BlackPlayerID, clock.WhitePlayerID}
    /\ ~clock.StartMode
    /\ clock.LastMove + TurnBudget < MaxTicks * TickSecs

----------------------------------------------------------------------------
(* Properties *)

\* C1: for absolute, fischer and simple the main time is the pool
\* (ThinkingTime, or PerMove for simple) less the elapsed time, not below 0,
\* when the player is on turn and the pool itself otherwise; SuddenDeath is
\* MainTime < 10 and TimedOut is MainTime <= 0.
C1_MainTimePool ==
    (Asked /\ tc.System \in {ClockAbsolute, ClockFischer, ClockSimple}) =>
        LET main == IF QOnTurn THEN Max(0, QPool - QElapsed) ELSE QPool
        IN  /\ result.kind = "clock"
            /\ result.MainTime = main
            /\ result.SuddenDeath = (main < 10)
            /\ result.TimedOut = (main <= 0)

\* on turn with 40s, 35s elapsed: MainTime 5, sudden death, not timed out
C1_Witness ==
    /\ Asked /\ tc.System = ClockAbsolute /\ QOnTurn
    /\ QTime.ThinkingTime = 40 /\ QElapsed = 35
    /\ result.MainTime = 5 /\ result.SuddenDeath /\ ~result.TimedOut

\* C2: byoyomi on turn, evaluated at or after the snapshot: main time goes
\* first, the excess is overTime; in overtime with period length L > 0,
\* periodsUsed = floor(overTime / L), PeriodsLeft = max(0, Periods -
\* periodsUsed), PeriodTimeLeft = max(0, L - (overTime - periodsUsed * L));
\* out of overtime the snapshot's periods and period time stand;
\* SuddenDeath = PeriodsLeft <= 1, TimedOut = MainTime <= 0 /\ PeriodsLeft < 0.
C2_ByoyomiOnTurn ==
    (Asked /\ tc.System = ClockByoyomi /\ QOnTurn /\ QElapsed >= 0) =>
        LET len == tc.PeriodTime
            used == QOverTime \div len
        IN  /\ result.kind = "clock"
            /\ result.MainTime = Max(0, QTime.ThinkingTime - QElapsed)
            /\ (QOverTime > 0 /\ len > 0) =>
                   /\ result.PeriodsLeft = Max(0, QTime.Periods - used)
                   /\ result.PeriodTimeLeft = Max(0, len - (QOverTime - used * len))
            /\ QOverTime = 0 =>
                   /\ result.PeriodsLeft = QTime.Periods
                   /\ result.PeriodTimeLeft = QTime.PeriodTime
            /\ result.SuddenDeath = (result.PeriodsLeft <= 1)
            /\ result.TimedOut = (result.MainTime <= 0 /\ result.PeriodsLeft < 0)

\* ThinkingTime 0, 1 period of 30s, 45s elapsed: no period left, 15s shown
C2_Witness ==
    /\ Asked /\ tc.System = ClockByoyomi /\ QOnTurn
    /\ QTime.ThinkingTime = 0 /\ QTime.Periods = 1 /\ tc.PeriodTime = 30
    /\ QElapsed = 45
    /\ result.PeriodsLeft = 0 /\ result.PeriodTimeLeft = 15

\* C3: byoyomi off turn reports the snapshot unchanged: PeriodsLeft is the
\* snapshot's Periods, PeriodTimeLeft the snapshot's period time, MainTime
\* the snapshot's ThinkingTime, whatever the config's period length is.
C3_ByoyomiOffTurnSnapshot ==
    (Asked /\ tc.System = ClockByoyomi /\ ~QOnTurn /\ ~IsRengoTime(QTime)) =>
        /\ result.kind = "clock"
        /\ result.MainTime = QTime.ThinkingTime
        /\ result.PeriodsLeft = QTime.Periods
        /\ result.PeriodTimeLeft = QTime.PeriodTime

\* C4: canadian: MovesLeft is the snapshot's; on turn the main time goes
\* first and only the overtime is taken off the block time, not below 0;
\* SuddenDeath = MainTime <= 0 /\ (BlockTimeLeft < 10 \/ MovesLeft < 2),
\* TimedOut = MainTime <= 0 /\ BlockTimeLeft <= 0.
C4_Canadian ==
    (Asked /\ tc.System = ClockCanadian) =>
        /\ result.kind = "clock"
        /\ result.MovesLeft = QTime.MovesLeft
        /\ (QOnTurn /\ QElapsed >= 0) =>
               result.MainTime = Max(0, QTime.ThinkingTime - QElapsed)
        /\ QOnTurn =>
               result.BlockTimeLeft = Max(0, QTime.BlockTime - QOverTime)
        /\ ~QOnTurn =>
               /\ result.MainTime = QTime.ThinkingTime
               /\ result.BlockTimeLeft = QTime.BlockTime
        /\ result.SuddenDeath =
               (result.MainTime <= 0
                    /\ (result.BlockTimeLeft < 10 \/ result.MovesLeft < 2))
        /\ result.TimedOut = (result.MainTime <= 0 /\ result.BlockTimeLeft <= 0)

\* 40s main and a 20s block, 45s elapsed: 5s of overtime leave a block of 15s
C4_Witness ==
    /\ Asked /\ tc.System = ClockCanadian /\ QOnTurn
    /\ QTime.ThinkingTime = 40 /\ QTime.BlockTime = 20 /\ QElapsed = 45
    /\ result.MainTime = 0 /\ result.BlockTimeLeft = 15
    /\ result.MovesLeft = 3 /\ ~result.SuddenDeath

\* C5: a paused clock never depletes: while the player asked for is off
\* turn or StartMode is set, a later call for the same player on the same
\* snapshot returns what the earlier call returned.
C5_PausedNeverDepletes ==
    [][(/\ Called
        /\ fresh'
        /\ player' = player
        /\ player \in {PlayerBlack, PlayerWhite}
        /\ clock' = clock /\ tc' = tc
        /\ (~QOnTurn \/ clock.StartMode))
       => result' = result]_vars

\* a paused clock read 45s after the snapshot still shows its 40s
C5_Witness ==
    /\ Asked /\ result.kind = "clock"
    /\ QOnTurn /\ clock.StartMode
    /\ wall - clock.LastMove = 45
    /\ QPool = 40 /\ result.MainTime = 40

\* C6: ComputeClock returns nil for a player that is neither Black nor
\* White and for a System outside the five disciplines; otherwise it returns
\* a clock whose System is the config's.
C6_NilOrSystem ==
    Called =>
        IF player \in {PlayerBlack, PlayerWhite}
               /\ tc.System \in {"absolute", "byoyomi", "canadian", "fischer", "simple"}
        THEN result.kind = "clock" /\ result.System = tc.System
        ELSE result = Nil

\* nil for a recognized player under an unknown System
C6_Witness ==
    /\ Called /\ player = PlayerBlack /\ tc.System = "none" /\ result = Nil

\* C7: the elapsed time is never negative: the on-turn player's MainTime
\* never exceeds the snapshot's ThinkingTime (PerMove for simple), and the
\* byoyomi and canadian counters never exceed their snapshot values, also
\* when the call comes before the snapshot's instant.
C7_NeverAboveSnapshot ==
    (Asked /\ QOnTurn /\ result.kind = "clock") =>
        /\ result.MainTime <= QPool
        /\ result.PeriodsLeft <= QTime.Periods
        /\ result.BlockTimeLeft <= QTime.BlockTime
        /\ result.MovesLeft <= QTime.MovesLeft

C9_RengoNotComputed ==
    (Asked /\ IsRengoTime(QTime)) =>
        ~(/\ result.kind = "clock"
          /\ result.MainTime = 0
          /\ result.SuddenDeath
          /\ result.TimedOut)

\* C10: for a recognized player ComputeClock never raises, whatever the
\* fields hold: it returns nil or a clock, and a byoyomi config with period
\* length 0 in overtime gives a clock with no period and no period time left.
C10_NeverRaises ==
    Asked =>
        /\ result.kind \in {"clock", "nil"}
        /\ (result.kind = "clock" /\ tc.System = ClockByoyomi /\ QOnTurn
                /\ tc.PeriodTime = 0 /\ QOverTime > 0) =>
               /\ result.MainTime = 0
               /\ result.PeriodsLeft = 0
               /\ result.PeriodTimeLeft = 0
               /\ result.SuddenDeath
               /\ ~result.TimedOut

\* period length 0, two periods in the snapshot, 45s into overtime
C10_Witness ==
    /\ Asked /\ tc.System = ClockByoyomi /\ QOnTurn
    /\ tc.PeriodTime = 0 /\ QTime.Periods = 2
    /\ QTime.ThinkingTime = 0 /\ QElapsed = 45
    /\ result.kind = "clock" /\ result.PeriodsLeft = 0

C12_ClockString ==
    (arg.kind = "clock" /\ ret.kind = "ok") =>
        LET c == arg.cc
            main == prettyTime(c.MainTime)
            periods == prettyTime(c.PeriodTimeLeft) \o " (" \o ToString(c.PeriodsLeft) \o ")"
            block == prettyTime(c.BlockTimeLeft) \o "/" \o ToString(c.MovesLeft)
        IN  /\ c.TimedOut => ret.val = "Timeout"
            /\ (~c.TimedOut /\ c.System \in {"absolute", "fischer", "simple"}) =>
                   ret.val = (IF c.SuddenDeath THEN main \o " (SD)" ELSE main)
            /\ (~c.TimedOut /\ c.System = "byoyomi") =>
                   ret.val = (IF c.SuddenDeath
                                  THEN prettyTime(c.PeriodTimeLeft) \o " (SD)"
                              ELSE IF c.MainTime > 0 THEN main \o " +" \o periods
                              ELSE periods)
            /\ (~c.TimedOut /\ c.System = "canadian") =>
                   ret.val = (IF c.SuddenDeath THEN block \o " (SD)"
                              ELSE IF c.MainTime > 0 THEN main \o " +" \o block
                              ELSE block)

\* byoyomi with 75s of main time and three periods of 30s
C12_Witness ==
    /\ arg.kind = "clock" /\ arg.cc.System = ClockByoyomi
    /\ ret = Ok("1:15 +30s (3)")

\* C13: prettyTime of s whole seconds, s >= 0, with D days, H hours, M
\* minutes, S seconds: "<S>s" below a minute; "<M>:<SS>" below an hour;
\* "<H>h" or "<H>h<M>m", never seconds, below a day; from one day on
\* "<D>d<H>h" when H > 0 and "<D*24>h" otherwise.
C13_PrettyTime ==
    (arg.kind = "secs" /\ ret.kind = "ok" /\ arg.s >= 0) =>
        LET s == arg.s
            D == s \div 86400
            H == (s % 86400) \div 3600
            M == (s % 3600) \div 60
            S == s % 60
            SS == IF S < 10 THEN "0" \o ToString(S) ELSE ToString(S)
        IN  /\ s < 60 => ret.val = ToString(S) \o "s"
            /\ (s >= 60 /\ s < 3600) => ret.val = ToString(M) \o ":" \o SS
            /\ (s >= 3600 /\ s < 86400) =>
                   ret.val = (IF M > 0 THEN ToString(H) \o "h" \o ToString(M) \o "m"
                              ELSE ToString(H) \o "h")
            /\ (s >= 86400 /\ H > 0) =>
                   ret.val = ToString(D) \o "d" \o ToString(H) \o "h"
            /\ (s >= 86400 /\ H = 0) => ret.val = ToString(D * 24) \o "h"

\* one day and 59 minutes is "24h"; 65 seconds is "1:05"
C13_Witness ==
    \/ arg.kind = "secs" /\ arg.s = 86400 + 59 * 60 /\ ret = Ok("24h")
    \/ arg.kind = "secs" /\ arg.s = 65 /\ ret = Ok("1:05")

\* C14: for every boardSize <= 25 and every (x, y) with 0 <= x, y <
\* boardSize, ToA1Coordinate succeeds, and ToOriginCoordinate applied to its
\* result succeeds and returns exactly (x, y).
C14_OriginRoundTrip ==
    (/\ arg.kind = "origin" /\ arg.size <= 25
     /\ arg.c.X >= 0 /\ arg.c.X < arg.size
     /\ arg.c.Y >= 0 /\ arg.c.Y < arg.size) =>
        /\ ret.kind \in {"none", "ok"}
        /\ back.kind = "none" \/ back = Ok(arg.c)

\* C15: for every boardSize and every A1Coordinate that ToOriginCoordinate
\* accepts, ToA1Coordinate applied to the result succeeds and returns the
\* same A1Coordinate, column letter and row.
C15_A1RoundTripSame ==
    (arg.kind = "a1" /\ ret.kind = "ok" /\ back.kind # "none") =>
        back = Ok(arg.c)

\* C15, amended: for every boardSize and every A1Coordinate that
\* ToOriginCoordinate accepts, ToA1Coordinate applied to the result succeeds
\* and returns the same row and the upper-case form of the column letter.
C15_A1RoundTripUpper ==
    (arg.kind = "a1" /\ ret.kind = "ok" /\ back.kind # "none") =>
        /\ back.kind = "ok"
        /\ back.val.Row = arg.c.Row
        /\ back.val.Col = (IF arg.c.Col \in 97..122 THEN arg.c.Col - 32 ELSE arg.c.Col)

\* "j10" on a 19 board comes back as "J10"
C15_Witness ==
    /\ arg.kind = "a1" /\ arg.size = 19 /\ arg.c = A1Coordinate(Ord("j"), 10)
    /\ ret = Ok(OriginCoordinate(8, 9))
    /\ back = Ok(A1Coordinate(Ord("J"), 10))

\* C16: ToA1Coordinate(boardSize) fails exactly when x or y is outside
\* [0, boardSize); on success the column is 'A'+x for x < 8 and 'A'+x+1 for
\* x >= 8, never 'I', and the row is boardSize - y.
C16_ToA1Coordinate ==
    (arg.kind = "origin" /\ ret.kind # "none") =>
        LET x == arg.c.X
            y == arg.c.Y
            n == arg.size
            off == x \notin 0..(n - 1) \/ y \notin 0..(n - 1)
        IN  /\ (ret.kind = "err") <=> off
            /\ ~off => /\ ret.kind = "ok"
                       /\ ret.val.Col = (IF x < 8 THEN 65 + x ELSE 66 + x)
                       /\ ret.val.Col # 73
                       /\ ret.val.Row = n - y

\* (8, 0) on a 9 board is J9
C16_Witness ==
    /\ arg.kind = "origin" /\ arg.size = 9 /\ arg.c = OriginCoordinate(8, 0)
    /\ ret = Ok(A1Coordinate(Ord("J"), 9))

\* C17: ToOriginCoordinate(boardSize) reads the column letter without regard
\* to case and fails exactly when the letter is outside A-H and J-T or the
\* decoded x or y is outside [0, boardSize); on success x = letter - 'A',
\* less one after 'I', and y = boardSize - row.
C17_ToOriginCoordinate ==
    (arg.kind = "a1" /\ ret.kind # "none") =>
        LET up == IF arg.c.Col \in 97..122 THEN arg.c.Col - 32 ELSE arg.c.Col
            n == arg.size
            x == IF up > 73 THEN up - 65 - 1 ELSE up - 65
            y == n - arg.c.Row
            bad == \/ up \notin ((65..72) \cup (74..84))
                   \/ x \notin 0..(n - 1)
                   \/ y \notin 0..(n - 1)
        IN  /\ (ret.kind = "err") <=> bad
            /\ ~bad => ret = Ok([X |-> x, Y |-> y])

\* a lower-case 't' on a 19 board is the last column; 'U' is refused on 25
C17_Witness ==
    \/ /\ arg.kind = "a1" /\ arg.size = 19 /\ arg.c = A1Coordinate(Ord("t"), 19)
       /\ ret = Ok(OriginCoordinate(18, 0))
    \/ /\ arg.kind = "a1" /\ arg.size = 25 /\ arg.c = A1Coordinate(Ord("U"), 1)
       /\ ret = Err

\* C18: NewA1Coordinate(s) fails when s has fewer than 2 characters, when
\* its first letter, upper-cased, is outside A-Z or is 'I', or when the
\* remaining characters do not parse as an integer in [1, 25]; otherwise it
\* returns the upper-cased first letter as column and the parsed number as
\* row. Characters are the bytes of s.
C18_NewA1Coordinate ==
    (arg.kind = "str" /\ ret.kind # "none") =>
        LET s == arg.coord
            first == IF s[1] \in 97..122 THEN s[1] - 32 ELSE s[1]
            n == Atoi(Tail(s))
            bad == \/ Len(s) < 2
                   \/ first \notin 65..90
                   \/ first = 73
                   \/ n.kind = "err"
                   \/ n.val \notin 1..25
        IN  IF bad THEN ret = Err ELSE ret = Ok([Col |-> first, Row |-> n.val])

\* "a25" is A25
C18_Witness ==
    /\ arg.kind = "str" /\ arg.coord = <<Ord("a"), Ord("2"), Ord("5")>>
    /\ ret = Ok(A1Coordinate(Ord("A"), 25))

\* C19: Status(state, viewer) returns the fallback text ending in
\* "(unknown board state)" for a nil state; for a game in play it names the
\* turn relative to the viewer ("your"/"opponent's") when the viewer is one
\* of the players and by colour ("Black's"/"White's") otherwise, reports the
\* other party as having made the last move, and renders the last move as
\* "passed" for (-1,-1) and as its A1 coordinate otherwise. Read for an
\* identified viewer and a last move that is the pass or lies on the board.
C19_Status ==
    (/\ arg.kind = "status" /\ ret.kind = "ok"
     /\ arg.viewer # 0
     /\ arg.state.kind = "state" =>
            \/ arg.state.LastMove = [X |-> -1, Y |-> -1]
            \/ /\ arg.state.LastMove.X \in 0..(arg.g.Height - 1)
               /\ arg.state.LastMove.Y \in 0..(arg.g.Height - 1)) =>
        LET g == arg.g
            st == arg.state
            me == arg.viewer
            mine == me \in {g.Players.Black.ID, g.Players.White.ID}
            blackToMove == st.PlayerToMove = g.Players.Black.ID
            turn == IF mine
                    THEN (IF st.PlayerToMove = me THEN "your" ELSE "opponent's")
                    ELSE (IF blackToMove THEN "Black's" ELSE "White's")
            other == IF mine
                     THEN (IF st.PlayerToMove = me THEN "Opponent" ELSE "You")
                     ELSE (IF blackToMove THEN "White" ELSE "Black")
            a1 == ToA1Coordinate(st.LastMove, g.Height).val
            move == IF st.LastMove = [X |-> -1, Y |-> -1]
                    THEN "passed"
                    ELSE "played " \o Chr(a1.Col) \o ToString(a1.Row)
        IN  IF st.kind = "nil"
            THEN ret.val = GameString(g) \o " (unknown board state)"
            ELSE st.Phase # "finished" =>
                     ret.val = ToString(st.MoveNumber) \o " moves. " \o other \o " "
                                   \o move \o ", " \o turn \o " turn"

\* C20: once the game has finished, Result() returns "<title> won by
\* <Outcome>" where the title is the one of the player whose ID equals
\* WinnerID; while the phase is not finished it returns "".
C20_Result ==
    (arg.kind = "game" /\ ret.kind = "ok") =>
        LET g == arg.g
            winners == {t \in {[id |-> g.Players.Black.ID, title |-> BlackPlayerTitle(g)],
                               [id |-> g.Players.White.ID, title |-> WhitePlayerTitle(g)]} :
                            t.id = g.WinnerID}
        IN  IF g.Phase # "finished"
            THEN ret.val = ""
            ELSE \E t \in winners : ret.val = t.title \o " won by " \o g.Outcome

\* C22: Ranking() labels a professional (Rank - 36) rounded with "p";
\* otherwise Rank >= 1037 is (Rank - 1036) rounded with "p", Rank >= 30 is
\* (Rank - 29) rounded with "d", Rank >= 1 is 30 - floor(Rank) with "k", and
\* Rank < 1 is "?"; in particular 39 professional is "3p", 1037.1 is "1p",
\* 30.0001 is "1d", 29.9999 is "1k" and 0.9999 is "?". Rounded is to a
\* nearest whole number.
C22_Ranking ==
    (arg.kind = "rank" /\ ret.kind = "ok") =>
        LET r == arg.p.Rank
            Nearest(n) == {q \in {n \div 10000, (n \div 10000) + 1} :
                               /\ 2 * (n - q * 10000) <= 10000
                               /\ 2 * (q * 10000 - n) <= 10000}
            Rounded(n, suffix) == \E q \in Nearest(n) : ret.val = ToString(q) \o suffix
            pro == arg.p.Professional
        IN  /\ IF pro THEN Rounded(r - 36 * 10000, "p")
               ELSE IF r >= 1037 * 10000 THEN Rounded(r - 1036 * 10000, "p")
               ELSE IF r >= 30 * 10000 THEN Rounded(r - 29 * 10000, "d")
               ELSE IF r >= 1 * 10000 THEN ret.val = ToString(30 - (r \div 10000)) \o "k"
               ELSE ret.val = "?"
            /\ (pro /\ r = 390000) => ret.val = "3p"
            /\ (~pro /\ r = 10371000) => ret.val = "1p"
            /\ (~pro /\ r = 300001) => ret.val = "1d"
            /\ (~pro /\ r = 299999) => ret.val = "1k"
            /\ (~pro /\ r = 9999) => ret.val = "?"

\* 30.6 is "2d"
C22_Witness ==
    /\ arg.kind = "rank" /\ ~arg.p.Professional /\ arg.p.Rank = 306000
    /\ ret = Ok("2d")

\* C23: decoding the bare integer n into a Timestamp yields the instant n
\* milliseconds after the Unix epoch when n > 1,000,000,000,000 and n
\* seconds after it otherwise; an input that is not a bare integer yields an
\* error and leaves the Timestamp at its prior value. Integers are int64.
C23_TimestampDecoding ==
    (arg.kind = "ts" /\ ret.kind = "decoded") =>
        IF arg.n.kind = "ok"
        THEN LET n == arg.n.val
                 big == /\ ~n.neg
                        /\ Len(n.mag) >= 13
                        /\ n.mag # <<1, 0, 0, 0, 0, 0, 0, 0, 0, 0, 0, 0, 0>>
             IN  /\ ~ret.err
                 /\ ret.val = [unit |-> IF big THEN "ms" ELSE "s", n |-> n]
        ELSE ret.err /\ ret.val = arg.t

\* 1672531200000 is taken for milliseconds; a quoted text is refused
C23_Witness ==
    \/ /\ arg.kind = "ts"
       /\ arg.b = Bytes(<<"1", "6", "7", "2", "5", "3", "1", "2", "0", "0", "0", "0", "0">>)
       /\ ret.kind = "decoded" /\ ~ret.err /\ ret.val.unit = "ms"
    \/ /\ arg.kind = "ts" /\ arg.b = Bytes(<<"\"", "\"">>) /\ arg.t = ZeroInstant
       /\ ret = Decoded(TRUE, ZeroInstant)

\* C24: PlayerTime decoding attempts the simple shape first and the
\* structured record only if that fails. A bare number decoded into a fresh
\* PlayerTime sets Value and leaves every structured field zero; a
\* structured record sets the structured fields and leaves Value zero; input
\* matching neither shape returns an error.
C24_PlayerTimeDecoding ==
    (arg.kind = "pt" /\ ret.kind = "decoded") =>
        LET j == arg.json
            instant == [unit |-> IF Len(j.n.mag) >= 13 THEN "ms" ELSE "s", n |-> j.n]
        IN  /\ ret.tried[1] = "simple"
            /\ j.shape = "simple" =>
                   /\ ret.tried = <<"simple">>
                   /\ ~ret.err
                   /\ arg.t = FreshTime => ret.val = [FreshTime EXCEPT !.Value = instant]
            /\ j.shape = "structured" =>
                   /\ ret.tried = <<"simple", "structured">>
                   /\ ~ret.err
                   /\ ret.val = j.data.fields
                   /\ ret.val.Value = [unit |-> "zero"]
            /\ j.shape = "neither" => ret.err

\* C24, amended: as C24, except that JSON null, which matches neither
\* shape, is accepted by the structured attempt: it returns no error and
\* leaves a zero PlayerTime; every other input matching neither shape
\* returns an error and leaves the PlayerTime as it was.
C24_PlayerTimeDecodingNull ==
    (arg.kind = "pt" /\ ret.kind = "decoded") =>
        LET j == arg.json
            instant == [unit |-> IF Len(j.n.mag) >= 13 THEN "ms" ELSE "s", n |-> j.n]
        IN  /\ ret.tried[1] = "simple"
            /\ j.shape = "simple" =>
                   /\ ret.tried = <<"simple">>
                   /\ ~ret.err
                   /\ arg.t = FreshTime => ret.val = [FreshTime EXCEPT !.Value = instant]
            /\ j.shape = "structured" =>
                   /\ ret.tried = <<"simple", "structured">>
                   /\ ~ret.err
                   /\ ret.val = j.data.fields
                   /\ ret.val.Value = [unit |-> "zero"]
            /\ (j.shape = "neither" /\ j.data.jk = "null") =>
                   ~ret.err /\ ret.val = FreshTime
            /\ (j.shape = "neither" /\ j.data.jk # "null") =>
                   ret.err /\ ret.val = arg.t

\* null decoded into a PlayerTime that held a structured record
C24_Witness ==
    /\ arg.kind = "pt" /\ arg.json.data.jk = "null" /\ arg.t.Periods = 1
    /\ ret.kind = "decoded" /\ ~ret.err /\ ret.val = FreshTime

\* C25: LoadClient refreshes the token when it expires within 7 days or when
\* identification with the current token fails; after a successful refresh
\* the new credentials are in the secret file before Identify and the
\* websocket connect are attempted; MaybeRefresh returns true only when a
\* refresh was performed and succeeded; LoadClient returns a client only if
\* every step it took succeeded.
C25_LoadClient ==
    /\ [](refreshed => /\ client.AccessToken = "new" /\ client.UserJWT = "new"
                       /\ pc \in {"save", "identify", "connect", "done"})
    /\ []((refreshed /\ (pc \in {"identify", "connect"} \/ loaded.kind = "client")) =>
              file = SecretFile(Credentials(client)))
    /\ [](loaded.kind = "client" =>
              /\ pc = "done" /\ loaded.c = client
              /\ client.UserID # 0 /\ client.socket
              /\ ~refreshed => (client.AccessToken = "old" /\ ~(RefreshDeadline > client.ExpiresAt)))
    /\ [][pc = "maybe" =>
              /\ (RefreshDeadline > client.ExpiresAt) => (refreshed' \/ loaded'.kind = "err")
              /\ (~refreshed' /\ loaded'.kind # "err") => client'.UserID # 0
              /\ refreshed' => (pc' = "save" /\ file' = file)]_vars
    /\ [][(pc = "save" /\ refreshed) =>
              \/ pc' = "identify" /\ file' = SecretFile(Credentials(client))
              \/ pc' = "done" /\ loaded'.kind = "err"]_vars

\* a client returned after a refresh that was saved
C25_Witness ==
    /\ loaded.kind = "client" /\ refreshed
    /\ file = SecretFile(Credentials(client)) /\ client.AccessToken = "new"

\* C26: whenever the state handed to Status has Phase finished, Status
\* reports that the game has finished together with the winner and a
\* non-empty outcome, whatever the Game data and the snapshot are, also for
\* MoveNumber 0 and for a Game whose own Phase is not finished yet.
C26_FinishedStatus ==
    (/\ arg.kind = "status" /\ ret.kind = "ok"
     /\ arg.state.kind = "state" /\ arg.state.Phase = FinishedPhase) =>
        \E title \in {BlackPlayerTitle(arg.g), WhitePlayerTitle(arg.g)},
           outcome \in {"Resignation", "Timeout"} :
            ret.val = "Game has finished, " \o title \o " won by " \o outcome

\* C30: (-1,-1) is the only pass sentinel: IsPass is true for (-1,-1) and
\* false for every other coordinate, also when only one of X and Y is -1,
\* so Status reports "passed" only when the last move is exactly (-1,-1).
C30_OnlyPassSentinel ==
    (/\ arg.kind = "status" /\ ret.kind = "ok"
     /\ arg.state.kind = "state") =>
        LET st == arg.state
            w == TurnWording(arg.g, st, arg.viewer)
            passed == ToString(st.MoveNumber) \o " moves. " \o w.whoPlayed
                          \o " passed, " \o w.turn \o " turn"
        IN  /\ IsPass(st.LastMove) <=> st.LastMove = [X |-> -1, Y |-> -1]
            /\ ret.val = passed => st.LastMove = [X |-> -1, Y |-> -1]

\* C29: in every ComputedClock that ComputeClock returns, for every
\* discipline, snapshot, player and instant, TimedOut implies SuddenDeath.
C29_TimedOutInSuddenDeath ==
    result.kind = "clock" => (result.TimedOut => result.SuddenDeath)

\* a clock reported as timed out
C29_Witness ==
    result.kind = "clock" /\ result.TimedOut /\ result.SuddenDeath

\* C28: the computed clock only runs down. For a fixed snapshot and
\* config, the player on turn and StartMode not set, and instants
\* t1 <= t2 at or after the snapshot instant: MainTime at t2 is at most
\* MainTime at t1, so are byoyomi PeriodsLeft and canadian BlockTimeLeft,
\* and SuddenDeath or TimedOut at t1 is still set at t2.
C28_RunsDown ==
    (/\ Asked /\ QOnTurn /\ ~clock.StartMode
     /\ wall >= clock.LastMove /\ result.kind = "clock") =>
        \A t1 \in clock.LastMove..wall, infInt \in InfAsInt :
            LET at1 == ComputeClock(clock, tc, player, t1, infInt)
            IN  at1.kind = "clock" =>
                    /\ result.MainTime <= at1.MainTime
                    /\ tc.System = ClockByoyomi => result.PeriodsLeft <= at1.PeriodsLeft
                    /\ tc.System = ClockCanadian => result.BlockTimeLeft <= at1.BlockTimeLeft
                    /\ at1.SuddenDeath => result.SuddenDeath
                    /\ at1.TimedOut => result.TimedOut

\* a canadian block partly used after the main time ran out
C28_Witness ==
    /\ Asked /\ QOnTurn /\ ~clock.StartMode /\ wall > clock.LastMove
    /\ tc.System = ClockCanadian /\ result.kind = "clock"
    /\ result.MainTime = 0 /\ QTime.ThinkingTime > 0
    /\ result.BlockTimeLeft > 0 /\ result.BlockTimeLeft < QTime.BlockTime

\* C27: timeout is eventually detected in every discipline: for a snapshot
\* with finite non-negative times and a recognized System, the queried
\* player on turn and StartMode not set, ComputeClock eventually returns
\* TimedOut = true as the instant advances (for byoyomi once the main time
\* and all periods are used up).
C27_TimeoutDetected ==
    TurnRuns ~> (player = TurnColor /\ result.kind = "clock" /\ result.TimedOut)

====
